---- MODULE Spec2Model ----
(***************************************************************************)
(* PNGme: the PNG chunk codec.                                             *)
(*                                                                         *)
(*   chunk_type.rs  ChunkType: 4 bytes, validity and bit-5 predicates      *)
(*   chunk.rs       Chunk: length, type, data, crc; new / as_bytes /       *)
(*                  try_from                                               *)
(*   commands.rs    encode / remove over a PNG file                        *)
(*                                                                         *)
(* Representation.  A u8 is a number 0..255.  A u32 is a record            *)
(* [hi, lo] of two 16-bit halves, standing for hi * 65536 + lo.  A byte    *)
(* slice, a Vec<u8> and a &str (its UTF-8 bytes) are sequences of u8.      *)
(* A Result is a record whose kind is "Ok", "Err" or "Panic"; an Option    *)
(* is a sequence of length 0 or 1.                                         *)
(***************************************************************************)
EXTENDS Integers, Sequences, FiniteSets, TLC

\* Longest payload of a chunk built in the model.
MaxData == 2

\* Largest value of the bits 32 and above of a payload length given to
\* Chunk::new where the model keeps the length of the payload alone.
MaxTop == 1

\* 16-bit halves such a payload length is made of.
HalfWords == {0, 1, 2, 255, 256, 32767, 32768, 65535}

\* Bytes the type codes of the model are drawn from: 'A', 'a' and '['.
TypeBytes == {65, 97, 91}

\* Bytes the payloads of the model are drawn from.
DataBytes == {0, 255}

\* Bytes a buffer position is overwritten with, or a buffer is extended by.
EditBytes == {0, 65, 97, 255}

\* Most chunks a container of the model holds.
MaxChunks == 2

\* Longest message of a chunk appended to a container.
MaxMsg == 1

\* Bytes the messages are drawn from: 'i'.
MsgBytes == {105}

\* Type strings of the chunks of a container: "RuSt", "Rust" and "ruSt".
TypeNames == { << 82, 117, 83, 116 >>, << 82, 117, 115, 116 >>,
               << 114, 117, 83, 116 >> }

\* Most characters of a string handed to ChunkType::from_str.
MaxChars == 5

\* The characters those strings are made of, each as its UTF-8 bytes:
\* 'A', 'Z', '[', 'a', 'z' and 'e' with an acute accent (two bytes).
Chars == { << 65 >>, << 90 >>, << 91 >>, << 97 >>, << 122 >>, << 195, 169 >> }

\* Bytes the raw type codes handed to ChunkType::try_from are drawn from.
CodeBytes == {0, 64, 65, 90, 91, 96, 97, 122, 123, 255}

-----------------------------------------------------------------------------
(* Machine integers *)

RECURSIVE BitXor(_, _, _)
\* a ^ b on the low n bits
BitXor(a, b, n) ==
    IF n = 0 THEN 0
    ELSE ((a + b) % 2) + 2 * BitXor(a \div 2, b \div 2, n - 1)

\* u8 ^ u8, tabulated
Xor8 == [a \in 0..255 |-> [b \in 0..255 |-> BitXor(a, b, 8)]]

\* a & 32 for a u8
And32(a) == ((a \div 32) % 2) * 32

Xor16(a, b) == Xor8[a \div 256][b \div 256] * 256 + Xor8[a % 256][b % 256]

U32(h, l) == [hi |-> h, lo |-> l]

Xor32(u, v) == U32(Xor16(u.hi, v.hi), Xor16(u.lo, v.lo))

\* u >> 1
Shr1(u) == U32(u.hi \div 2, (u.lo \div 2) + (u.hi % 2) * 32768)

\* u >> 8
Shr8(u) == U32(u.hi \div 256, (u.lo \div 256) + (u.hi % 256) * 256)

\* !u
Not32(u) == U32(65535 - u.hi, 65535 - u.lo)

\* a usize: top holds its bits 32 and above, hi and lo the two 16-bit halves
\* below them
Usize(t, h, l) == [top |-> t, hi |-> h, lo |-> l]

\* Vec::len
Vec_len(v) == Usize(0, Len(v) \div 65536, Len(v) % 65536)

\* `n as u32` for a usize n: the bits 32 and above are dropped
usize_as_u32(n) == U32(n.hi, n.lo)

\* u32::to_be_bytes
to_be_bytes(u) == << u.hi \div 256, u.hi % 256, u.lo \div 256, u.lo % 256 >>

\* u32::from_be_bytes on a 4-byte array
from_be_bytes(b) == U32(b[1] * 256 + b[2], b[3] * 256 + b[4])

\* `u as usize` for a u32 u; a usize holds every u32
u32_as_usize(u) == u.hi * 65536 + u.lo

\* slice.split_at(mid) panics when mid > len; mid is a u32 widened to usize.
\* The two are compared by their 16-bit halves, so that no u32 leaves the
\* range of the integers the comparison is computed in.
split_at_in_bounds(mid, len) ==
    \/ mid.hi < len \div 65536
    \/ mid.hi = len \div 65536 /\ mid.lo <= len % 65536

-----------------------------------------------------------------------------
(* crc::crc32::checksum_ieee: reflected CRC-32, polynomial 0xEDB88320 *)

\* crc32::IEEE, the polynomial 0xEDB88320
IEEE == U32(60856, 33568)

RECURSIVE CrcTableStep(_, _)
CrcTableStep(c, n) ==
    IF n = 0 THEN c
    ELSE CrcTableStep(IF c.lo % 2 = 1
                      THEN Xor32(Shr1(c), IEEE)
                      ELSE Shr1(c),
                      n - 1)

CrcTable == [i \in 0..255 |-> CrcTableStep(U32(0, i), 8)]

\* one byte of the update loop: table[(value ^ byte) & 0xFF] ^ (value >> 8)
CrcByte(value, byte) == Xor32(CrcTable[Xor8[value.lo % 256][byte]], Shr8(value))

RECURSIVE CrcUpdate(_, _, _, _)
\* the register after bytes[i..j], starting from value.  The bytes are taken
\* in order; the range is halved only to keep the nesting of the evaluation
\* logarithmic in the length, and the test on value makes TLC compute the
\* register of the first half before it goes on to the second.
CrcUpdate(value, bytes, i, j) ==
    IF value.lo < 0 \/ i > j THEN value
    ELSE IF i = j THEN CrcByte(value, bytes[i])
    ELSE CrcUpdate(CrcUpdate(value, bytes, i, (i + j) \div 2),
                   bytes, (i + j) \div 2 + 1, j)

checksum_ieee(bytes) == Not32(CrcUpdate(U32(65535, 65535), bytes, 1, Len(bytes)))

-----------------------------------------------------------------------------
(* Result<T> and Option<T> *)

Ok(v) == [kind |-> "Ok", val |-> << v >>, err |-> "None", info |-> << >>]

\* Err(Box<dyn Error>): the error's variant and the values it carries
Err(e, i) == [kind |-> "Err", val |-> << >>, err |-> e, info |-> i]

\* a panic of the thread (an out-of-bounds split_at)
Panic == [kind |-> "Panic", val |-> << >>, err |-> "None", info |-> << >>]

None == << >>
Some(v) == << v >>

-----------------------------------------------------------------------------
(* chunk_type.rs *)

\* (65..=90).contains(b) || (97..=122).contains(b)
is_letter(b) == (65 <= b /\ b <= 90) \/ (97 <= b /\ b <= 122)

\* ChunkType::bytes
ChunkType_bytes(t) == t.bytes

\* ChunkType::is_reserved_bit_valid
is_reserved_bit_valid(t) == And32(t.bytes[3]) = 0

\* is_valid without the reserved bit
is_valid_letters_only(t) == \A i \in 1..4 : is_letter(t.bytes[i])

\* ChunkType::is_valid
is_valid(t) ==
    LET valid_chars == \A i \in 1..4 : is_letter(t.bytes[i])
    IN  valid_chars /\ is_reserved_bit_valid(t)

\* impl TryFrom<[u8; 4]> for ChunkType
ChunkType_try_from(value) == Ok([bytes |-> value])

RECURSIVE str_as_bytes(_)
\* str::as_bytes: the UTF-8 bytes of the characters, in order
str_as_bytes(chars) ==
    IF chars = << >> THEN << >> ELSE Head(chars) \o str_as_bytes(Tail(chars))

\* from_str that accepts only what is_valid accepts
from_str_valid_only(s) ==
    IF Len(s) # 4 THEN Err("ByteLengthError", << Len(s) >>)
    ELSE IF ~is_valid([bytes |-> s]) THEN Err("InvalidCharacter", << >>)
    ELSE ChunkType_try_from(<< s[1], s[2], s[3], s[4] >>)

\* impl FromStr for ChunkType; s is the string's bytes
from_str(s) ==
    LET bytes == s
    IN  IF Len(bytes) # 4
        THEN Err("ByteLengthError", << Len(bytes) >>)
        ELSE LET valid_chars == \A i \in 1..Len(bytes) : is_letter(bytes[i])
             IN  IF ~valid_chars
                 THEN Err("InvalidCharacter", << >>)
                 ELSE ChunkType_try_from(<< bytes[1], bytes[2], bytes[3], bytes[4] >>)

RECURSIVE utf8_valid(_, _)
\* std::str::from_utf8 accepts b from position i on
utf8_valid(b, i) ==
    LET cont(k) == k <= Len(b) /\ 128 <= b[k] /\ b[k] <= 191
        within(k, lo, hi) == k <= Len(b) /\ lo <= b[k] /\ b[k] <= hi
    IN  IF i > Len(b) THEN TRUE
        ELSE IF b[i] < 128 THEN utf8_valid(b, i + 1)
        ELSE IF 194 <= b[i] /\ b[i] <= 223
             THEN cont(i + 1) /\ utf8_valid(b, i + 2)
        ELSE IF b[i] = 224
             THEN within(i + 1, 160, 191) /\ cont(i + 2) /\ utf8_valid(b, i + 3)
        ELSE IF b[i] = 237
             THEN within(i + 1, 128, 159) /\ cont(i + 2) /\ utf8_valid(b, i + 3)
        ELSE IF 225 <= b[i] /\ b[i] <= 239
             THEN cont(i + 1) /\ cont(i + 2) /\ utf8_valid(b, i + 3)
        ELSE IF b[i] = 240
             THEN within(i + 1, 144, 191) /\ cont(i + 2) /\ cont(i + 3)
                  /\ utf8_valid(b, i + 4)
        ELSE IF 241 <= b[i] /\ b[i] <= 243
             THEN cont(i + 1) /\ cont(i + 2) /\ cont(i + 3) /\ utf8_valid(b, i + 4)
        ELSE IF b[i] = 244
             THEN within(i + 1, 128, 143) /\ cont(i + 2) /\ cont(i + 3)
                  /\ utf8_valid(b, i + 4)
        ELSE FALSE

\* u8::to_ascii_uppercase
to_ascii_uppercase(b) == IF 97 <= b /\ b <= 122 THEN b - 32 ELSE b

\* the type code rendered in upper case
ChunkType_to_string_uppercase(t) ==
    IF utf8_valid(t.bytes, 1)
    THEN Ok([i \in 1..4 |-> to_ascii_uppercase(t.bytes[i])])
    ELSE Panic

\* impl Display for ChunkType, through ToString::to_string, which panics when
\* fmt returns an error
ChunkType_to_string(t) ==
    IF utf8_valid(t.bytes, 1) THEN Ok(t.bytes) ELSE Panic

-----------------------------------------------------------------------------
(* chunk.rs *)

\* Chunk::new with the CRC taken over the payload alone
Chunk_new_crc_of_data(chunk_type, data) ==
    [length |-> usize_as_u32(Vec_len(data)), chunk_type |-> chunk_type,
     data |-> data, crc |-> checksum_ieee(data)]

\* Chunk::new
Chunk_new(chunk_type, data) ==
    LET length == usize_as_u32(Vec_len(data))
        chunk_data == ChunkType_bytes(chunk_type) \o data
        crc == checksum_ieee(chunk_data)
    IN  [length |-> length, chunk_type |-> chunk_type, data |-> data, crc |-> crc]

\* Chunk::as_bytes
Chunk_as_bytes(c) ==
    to_be_bytes(c.length) \o ChunkType_bytes(c.chunk_type) \o c.data
        \o to_be_bytes(c.crc)

\* try_from, lines 104..131, with the stored CRC kept without comparing it
read_data_and_crc_unverified(length, chunk_type, bytes) ==
    IF ~split_at_in_bounds(length, Len(bytes)) THEN Panic
    ELSE LET data == SubSeq(bytes, 1, u32_as_usize(length))
             rest == SubSeq(bytes, u32_as_usize(length) + 1, Len(bytes))
         IN  IF 4 > Len(rest) THEN Panic
             ELSE Ok([length |-> length, chunk_type |-> chunk_type,
                      data |-> data, crc |-> from_be_bytes(SubSeq(rest, 1, 4))])

\* try_from, lines 104..131: the payload, the stored CRC and its verification;
\* bytes is the slice after the 8-byte header
read_data_and_crc(length, chunk_type, bytes) ==
    IF ~split_at_in_bounds(length, Len(bytes)) THEN Panic
    ELSE LET data == SubSeq(bytes, 1, u32_as_usize(length))
             rest == SubSeq(bytes, u32_as_usize(length) + 1, Len(bytes))
         IN  IF 4 > Len(rest) THEN Panic
             ELSE LET crc == from_be_bytes(SubSeq(rest, 1, 4))
                      chunk_data == ChunkType_bytes(chunk_type) \o data
                      actual_crc == checksum_ieee(chunk_data)
                      expected_crc == crc
                  IN  IF actual_crc # expected_crc
                      THEN Err("InvalidCrc", << expected_crc, actual_crc >>)
                      ELSE Ok([length |-> length, chunk_type |-> chunk_type,
                               data |-> data, crc |-> crc])

\* try_from with the size test at the 8 header bytes
Chunk_try_from_header_only(bytes) ==
    IF Len(bytes) < 8 THEN Err("InputTooSmall", << >>)
    ELSE LET length == from_be_bytes(SubSeq(bytes, 1, 4))
             chunk_type == ChunkType_try_from(SubSeq(bytes, 5, 8)).val[1]
         IN  IF ~is_valid(chunk_type) THEN Err("InvalidChunkType", << >>)
             ELSE read_data_and_crc(length, chunk_type, SubSeq(bytes, 9, Len(bytes)))

\* try_from without the is_valid gate
Chunk_try_from_any_type(bytes) ==
    IF Len(bytes) < 12 THEN Err("InputTooSmall", << >>)
    ELSE LET length == from_be_bytes(SubSeq(bytes, 1, 4))
             chunk_type == ChunkType_try_from(SubSeq(bytes, 5, 8)).val[1]
         IN  read_data_and_crc(length, chunk_type, SubSeq(bytes, 9, Len(bytes)))

\* impl TryFrom<&[u8]> for Chunk
Chunk_try_from(bytes) ==
    IF Len(bytes) < 12 THEN Err("InputTooSmall", << >>)
    ELSE LET length == from_be_bytes(SubSeq(bytes, 1, 4))
             chunk_type == ChunkType_try_from(SubSeq(bytes, 5, 8)).val[1]
         IN  IF ~is_valid(chunk_type) THEN Err("InvalidChunkType", << >>)
             ELSE read_data_and_crc(length, chunk_type, SubSeq(bytes, 9, Len(bytes)))

-----------------------------------------------------------------------------
(* png.rs, the container: the 8-byte signature and the chunks in file       *)
(* order.  The file is not among the sources; the operations follow the     *)
(* design specification, section 4.3.                                       *)

STANDARD_HEADER == << 137, 80, 78, 71, 13, 10, 26, 10 >>

\* Png::from_chunks
Png_from_chunks(chunks) == [chunks |-> chunks]

RECURSIVE Png_parse_chunks(_, _)
\* r is what Chunk::try_from made of rest: a failure is passed on, a chunk is
\* kept and the cursor moves on by its serialized size
Png_parse_next(r, rest, chunks) ==
    IF r.kind # "Ok" THEN r
    ELSE Png_parse_chunks(SubSeq(rest, 12 + Len(r.val[1].data) + 1, Len(rest)),
                          Append(chunks, r.val[1]))

\* chunks are parsed from the rest of the input until it is used up
Png_parse_chunks(rest, chunks) ==
    IF rest = << >> THEN Ok(Png_from_chunks(chunks))
    ELSE Png_parse_next(Chunk_try_from(rest), rest, chunks)

\* impl TryFrom<&[u8]> for Png
Png_try_from(input) ==
    IF Len(input) < 8 \/ SubSeq(input, 1, 8) # STANDARD_HEADER
    THEN Err("InvalidSignature", << >>)
    ELSE Png_parse_chunks(SubSeq(input, 9, Len(input)), << >>)

RECURSIVE concat_bytes(_, _)
\* the serializations of chunks[i..], in order
concat_bytes(chunks, i) ==
    IF i > Len(chunks) THEN << >>
    ELSE Chunk_as_bytes(chunks[i]) \o concat_bytes(chunks, i + 1)

\* Png::as_bytes
Png_as_bytes(p) == STANDARD_HEADER \o concat_bytes(p.chunks, 1)

\* Png::append_chunk: the container afterwards
append_chunk(p, c) == [chunks |-> Append(p.chunks, c)]

\* the positions of the chunks whose type renders to type_name
matching(p, type_name) ==
    { i \in 1..Len(p.chunks) :
        ChunkType_to_string(p.chunks[i].chunk_type) = Ok(type_name) }

Min(S) == CHOOSE m \in S : \A k \in S : m <= k

\* Png::chunk_by_type: the first chunk whose type renders to type_name
chunk_by_type(p, type_name) ==
    IF matching(p, type_name) = {} THEN None
    ELSE Some(p.chunks[Min(matching(p, type_name))])

\* Png::remove_chunk: the container afterwards and what is returned
remove_chunk(p, type_name) ==
    IF matching(p, type_name) = {}
    THEN [png |-> p, ret |-> Err("ChunkNotFound", << >>)]
    ELSE LET i == Min(matching(p, type_name))
         IN  [png |-> [chunks |-> SubSeq(p.chunks, 1, i - 1)
                                    \o SubSeq(p.chunks, i + 1, Len(p.chunks))],
              ret |-> Ok(p.chunks[i])]

-----------------------------------------------------------------------------
(* std::fs, as far as the commands use it.  A file is an Option: None when  *)
(* there is no file at the path, Some(bytes) when there is one.  Whether    *)
(* the system lets a read, a write or a printed line through is not decided *)
(* by the program: it is an input of each command.                          *)

\* the path given as <filepath>
Filepath == "filepath"

\* a path that names another file than <filepath>
OtherPath == "output_file"

\* fs::read(path): the bytes of the file; an io::Error when there is no file
\* at the path or the system refuses the read
fs_read(f, can_read) ==
    IF f = None \/ ~can_read THEN Err("io::Error", << >>) ELSE Ok(f[1])

\* fs::write(path, contents) went through
WriteOk == [kind |-> "ok", n |-> 0]

\* fs::write(path, contents) failed to open the file
WriteNotOpened == [kind |-> "open", n |-> 0]

\* fs::write(path, contents) failed after n bytes had reached the file
WriteCut(n) == [kind |-> "cut", n |-> n]

\* the [output_file] argument: absent, the path of the file at filepath
\* itself, or the path of another file
OutputFiles == { None, Some(Filepath), Some(OtherPath) }

\* the counts of bytes that reached the file when a write failed midway: none,
\* the signature, and the signature with a chunk
\* header and 4 bytes more
CutAt == { 0, 8, 20 }

\* what the system does with a write
WriteOutcomes ==
    { WriteOk, WriteNotOpened } \cup { WriteCut(n) : n \in CutAt }

\* fs::write(path, contents) is File::create(path)?.write_all(contents): the
\* file is opened and truncated, and then filled.  res is what the call
\* returns and left is the file it leaves at the path: None when the file was
\* never opened (it is as it was), and the bytes that reached it otherwise.
fs_write(contents, w) ==
    IF w.kind = "ok" THEN [res |-> Ok("unit"), left |-> Some(contents)]
    ELSE IF w.kind = "open" THEN [res |-> Err("io::Error", << >>), left |-> None]
    ELSE [res |-> Err("io::Error", << >>),
          left |-> Some(SubSeq(contents, 1, Min({w.n, Len(contents)})))]

-----------------------------------------------------------------------------
(* commands.rs.  A command is given the file at filepath and yields its     *)
(* result, the path fs::write was called with (None when it was not         *)
(* reached), the file that call left at the path, and the container the     *)
(* command held when it returned.                                           *)

Outcome(out, path, written, held) ==
    [out |-> out, path |-> path, written |-> written, held |-> held]

\* Png::try_from(&fs::read(&filepath)?[..]), the first two statements of each
\* command: the container, or the error that `?` returns from the command
read_png(f, can_read) ==
    IF fs_read(f, can_read).kind # "Ok" THEN fs_read(f, can_read)
    ELSE Png_try_from(fs_read(f, can_read).val[1])

\* encode, lines 20..25; parsed is what the command has after line 18: the
\* container with the chunk appended, or the error already returned
encode_appended(parsed, chunk_type, message) ==
    IF parsed.kind # "Ok" THEN parsed
    ELSE LET data == message
             chunk_ == Chunk_new(chunk_type, data)
         IN  Ok(append_chunk(parsed.val[1], chunk_))

\* encode, lines 29..34; appended is what the command has after line 25
encode_written(appended, output_file, w) ==
    IF appended.kind # "Ok" THEN Outcome(appended, None, None, None)
    ELSE LET wr == fs_write(Png_as_bytes(appended.val[1]), w)
         IN  Outcome(wr.res,
                     IF output_file # None THEN output_file ELSE Some(Filepath),
                     wr.left, Some(appended.val[1]))

\* encode, lines 20..34
encode_parsed(parsed, chunk_type, message, output_file, w) ==
    encode_written(encode_appended(parsed, chunk_type, message), output_file, w)

\* encode; f is the file at filepath, output_file an Option of a path
encode(f, chunk_type, message, output_file, can_read, w) ==
    encode_parsed(read_png(f, can_read), chunk_type, message, output_file, w)

\* println!("{}", chunk): panics when Display for Chunk returns an error, as
\* it does when the type code is not UTF-8, and when the line cannot be
\* written to stdout; can_print is whether the system takes the line
println(c, can_print) ==
    IF ChunkType_to_string(c.chunk_type).kind # "Ok" THEN Panic
    ELSE IF ~can_print THEN Panic
    ELSE Ok("unit")

\* decode, lines 47..54; name is chunk_type.to_string()
decode_parsed(parsed, name, can_print) ==
    IF parsed.kind # "Ok" THEN Outcome(parsed, None, None, None)
    ELSE IF name.kind # "Ok" THEN Outcome(Panic, None, None, parsed.val)
    ELSE IF chunk_by_type(parsed.val[1], name.val[1]) = None
    THEN Outcome(Err("Could not find chunk", << >>), None, None, parsed.val)
    ELSE Outcome(println(chunk_by_type(parsed.val[1], name.val[1])[1], can_print),
                 None, None, parsed.val)

\* decode: prints the first chunk of the type, or fails
decode(f, chunk_type, can_read, can_print) ==
    decode_parsed(read_png(f, can_read), ChunkType_to_string(chunk_type),
                  can_print)

\* remove, lines 67..73, with the file written before the result of
\* remove_chunk is looked at
remove_writing_first(r, w, can_print) ==
    LET wr == fs_write(Png_as_bytes(r.png), w)
    IN  Outcome(IF r.ret.kind # "Ok" THEN r.ret
                ELSE IF wr.res.kind # "Ok" THEN wr.res
                ELSE println(r.ret.val[1], can_print),
                Some(Filepath), wr.left, Some(r.png))

\* remove, lines 67..73; r is the container after remove_chunk and what it
\* returned: `?` returns the error before fs::write, and the removed chunk is
\* printed after the file was written
remove_removed(r, w, can_print) ==
    IF r.ret.kind # "Ok"
    THEN Outcome(r.ret, None, None, Some(r.png))
    ELSE LET wr == fs_write(Png_as_bytes(r.png), w)
         IN  Outcome(IF wr.res.kind # "Ok" THEN wr.res
                     ELSE println(r.ret.val[1], can_print),
                     Some(Filepath), wr.left, Some(r.png))

\* remove, lines 64..67; name is chunk_type.to_string()
remove_parsed(parsed, name, w, can_print) ==
    IF parsed.kind # "Ok" THEN Outcome(parsed, None, None, None)
    ELSE IF name.kind # "Ok" THEN Outcome(Panic, None, None, parsed.val)
    ELSE remove_removed(remove_chunk(parsed.val[1], name.val[1]), w, can_print)

\* remove
remove(f, chunk_type, can_read, w, can_print) ==
    remove_parsed(read_png(f, can_read), ChunkType_to_string(chunk_type), w,
                  can_print)

\* print_chunks, lines 85..89; parsed is what the command has after line 83.
\* The loop ends at the first println! that panics.
print_chunks_parsed(parsed, can_print) ==
    IF parsed.kind # "Ok" THEN Outcome(parsed, None, None, None)
    ELSE IF \E i \in 1..Len(parsed.val[1].chunks) :
                println(parsed.val[1].chunks[i], can_print).kind # "Ok"
    THEN Outcome(Panic, None, None, parsed.val)
    ELSE Outcome(Ok("unit"), None, None, parsed.val)

\* print_chunks: prints every chunk of the file
print_chunks(f, can_read, can_print) ==
    print_chunks_parsed(read_png(f, can_read), can_print)

-----------------------------------------------------------------------------
(* State.  Three machines share the module, each with its own next-state    *)
(* relation: the chunk codec (Spec), the container (SpecPng) and the        *)
(* commands over a file (SpecCmd).                                          *)

VARIABLES
    \* the chunk codec: a chunk is built, serialized, the buffer possibly
    \* edited once, and parsed
    step,     \* "init", "built", "sized", "serialized", "edited", "parsed"
    chunk,    \* Option<Chunk>: the chunk in hand
    origin,   \* "none", "new" (Chunk::new) or "parsed" (Chunk::try_from)
    bytes,    \* the buffer handed to Chunk::try_from
    edit,     \* what was done to the buffer after as_bytes
    result,   \* Option<Result<Chunk>>: what Chunk::try_from returned
    sized,    \* Option: a payload length and the length field Chunk::new
              \* gives a payload of that length
    \* the container
    png,      \* the Png in memory
    op,       \* the last operation on it and its argument
    ret,      \* Option: what the last operation returned
    prev,     \* the Png before the last operation
    op2,      \* the operation before the last
    prev2,    \* the Png before that operation
    \* the commands
    file,     \* Option: the file at filepath
    file0,    \* the file at filepath before the last command
    cmd,      \* the last command and its chunk type
    outcome,  \* Option: the last command's Outcome
    \* the type codes
    tinput,   \* what a type code was last made from: a string or 4 bytes
    tresult,  \* Option<Result<ChunkType>>: what making it returned
    tvalid    \* Option<bool>: what is_valid said of the type code

codec_vars == << step, chunk, origin, bytes, edit, result >>
png_vars == << png, op, ret, prev, op2, prev2 >>
cmd_vars == << file, file0, cmd, outcome >>
type_vars == << tinput, tresult, tvalid >>
length_vars == << sized >>
vars == << codec_vars, length_vars, png_vars, cmd_vars, type_vars >>

RECURSIVE SeqsUpTo(_, _)
\* the sequences over S of length at most n
SeqsUpTo(S, n) ==
    IF n = 0 THEN { << >> }
    ELSE LET shorter == SeqsUpTo(S, n - 1)
         IN  shorter \cup { Append(q, x) : q \in shorter, x \in S }

TypeCodes == { << a, b, c, d >> : a \in TypeBytes, b \in TypeBytes,
                                  c \in TypeBytes, d \in TypeBytes }

Payloads == SeqsUpTo(DataBytes, MaxData)

\* payload lengths up to 2^32 * (MaxTop + 1) - 1
PayloadLengths ==
    { Usize(t, h, l) : t \in 0..MaxTop, h \in HalfWords, l \in HalfWords }

Messages == SeqsUpTo(MsgBytes, MaxMsg)

NoEdit == [kind |-> "none", at |-> 0]

NoOp == [name |-> "none", arg |-> << >>]

Init ==
    /\ step = "init"
    /\ chunk = None
    /\ origin = "none"
    /\ bytes = << >>
    /\ edit = NoEdit
    /\ result = None
    /\ sized = None
    /\ png = Png_from_chunks(<< >>)
    /\ op = NoOp
    /\ ret = None
    /\ prev = Png_from_chunks(<< >>)
    /\ op2 = NoOp
    /\ prev2 = Png_from_chunks(<< >>)
    /\ file \in { None, Some(Png_as_bytes(Png_from_chunks(<< >>))) }
    /\ file0 = file
    /\ cmd = NoOp
    /\ outcome = None
    /\ tinput = NoOp
    /\ tresult = None
    /\ tvalid = None

-----------------------------------------------------------------------------
(* The chunk codec *)

\* Chunk::new(ChunkType::try_from(code), data)
New(code, data) ==
    /\ step = "init"
    /\ chunk' = Some(Chunk_new(ChunkType_try_from(code).val[1], data))
    /\ origin' = "new"
    /\ step' = "built"
    /\ UNCHANGED << bytes, edit, result, png_vars, cmd_vars, type_vars, length_vars >>

\* Chunk::new(chunk_type, data) for a payload of len bytes, as far as line 22:
\* the payload is kept by its length alone, which lets it be longer than a
\* sequence of the model can be
NewOfLength(len) ==
    /\ step = "init"
    /\ sized' = Some([len |-> len, length |-> usize_as_u32(len)])
    /\ step' = "sized"
    /\ UNCHANGED << chunk, origin, bytes, edit, result, png_vars, cmd_vars,
                    type_vars >>

\* chunk.as_bytes()
Serialize ==
    /\ step = "built"
    /\ bytes' = Chunk_as_bytes(chunk[1])
    /\ edit' = NoEdit
    /\ result' = None
    /\ step' = "serialized"
    /\ UNCHANGED << chunk, origin, png_vars, cmd_vars, type_vars, length_vars >>

\* one byte of the serialized chunk is replaced by a different value
SetByte(i, b) ==
    /\ step = "serialized"
    /\ i \in 1..Len(bytes)
    /\ bytes[i] # b
    /\ bytes' = [bytes EXCEPT ![i] = b]
    /\ edit' = [kind |-> "set", at |-> i]
    /\ step' = "edited"
    /\ UNCHANGED << chunk, origin, result, png_vars, cmd_vars, type_vars, length_vars >>

\* the serialized chunk is cut to its first n bytes
Truncate(n) ==
    /\ step = "serialized"
    /\ n < Len(bytes)
    /\ bytes' = SubSeq(bytes, 1, n)
    /\ edit' = [kind |-> "truncate", at |-> n]
    /\ step' = "edited"
    /\ UNCHANGED << chunk, origin, result, png_vars, cmd_vars, type_vars, length_vars >>

\* a byte follows the serialized chunk in the buffer
Extend(b) ==
    /\ step = "serialized"
    /\ bytes' = Append(bytes, b)
    /\ edit' = [kind |-> "extend", at |-> Len(bytes) + 1]
    /\ step' = "edited"
    /\ UNCHANGED << chunk, origin, result, png_vars, cmd_vars, type_vars, length_vars >>

\* Chunk::try_from(&bytes[..])
Parse ==
    /\ step \in {"serialized", "edited"}
    /\ result' = Some(Chunk_try_from(bytes))
    /\ step' = "parsed"
    /\ UNCHANGED << chunk, origin, bytes, edit, png_vars, cmd_vars, type_vars, length_vars >>

\* the chunk a successful try_from returned becomes the chunk in hand
TakeParsed ==
    /\ step = "parsed"
    /\ result[1].kind = "Ok"
    /\ chunk' = Some(result[1].val[1])
    /\ origin' = "parsed"
    /\ step' = "built"
    /\ bytes' = << >>
    /\ edit' = NoEdit
    /\ result' = None
    /\ UNCHANGED << png_vars, cmd_vars, type_vars, length_vars >>

Next ==
    \/ \E code \in TypeCodes, data \in Payloads : New(code, data)
    \/ \E len \in PayloadLengths : NewOfLength(len)
    \/ Serialize
    \/ \E i \in 1..(12 + MaxData), b \in EditBytes : SetByte(i, b)
    \/ \E n \in 0..(12 + MaxData) : Truncate(n)
    \/ \E b \in EditBytes : Extend(b)
    \/ Parse
    \/ TakeParsed

Spec == Init /\ [][Next]_vars

-----------------------------------------------------------------------------
(* The container *)

\* png.append_chunk(Chunk::new(ChunkType::from_str(s)?, data)), as encode does
AppendChunk(s, data) ==
    /\ Len(png.chunks) < MaxChunks
    /\ from_str(s).kind = "Ok"
    /\ LET c == Chunk_new(from_str(s).val[1], data)
       IN  /\ png' = append_chunk(png, c)
           /\ op' = [name |-> "append", arg |-> << c >>]
    /\ ret' = Some(Ok("unit"))
    /\ prev' = png
    /\ op2' = op
    /\ prev2' = prev
    /\ UNCHANGED << codec_vars, cmd_vars, type_vars, length_vars >>

\* png.remove_chunk(&chunk_type.to_string()), as remove does
RemoveChunk(s) ==
    /\ from_str(s).kind = "Ok"
    /\ LET chunk_type == from_str(s).val[1]
           name == ChunkType_to_string(chunk_type)
           r == remove_chunk(png, name.val[1])
       IN  /\ name.kind = "Ok"
           /\ png' = r.png
           /\ ret' = Some(r.ret)
           /\ op' = [name |-> "remove", arg |-> << chunk_type >>]
    /\ prev' = png
    /\ op2' = op
    /\ prev2' = prev
    /\ UNCHANGED << codec_vars, cmd_vars, type_vars, length_vars >>

\* Png::try_from(&png.as_bytes()[..]); the parsed container replaces the one
\* in memory when there is one
Reparse ==
    /\ \E r \in { Png_try_from(Png_as_bytes(png)) } :
           /\ ret' = Some(r)
           /\ png' = IF r.kind = "Ok" THEN r.val[1] ELSE png
    /\ op' = [name |-> "reparse", arg |-> << >>]
    /\ prev' = png
    /\ op2' = op
    /\ prev2' = prev
    /\ UNCHANGED << codec_vars, cmd_vars, type_vars, length_vars >>

NextPng ==
    \/ \E s \in TypeNames, data \in Messages : AppendChunk(s, data)
    \/ \E s \in TypeNames : RemoveChunk(s)
    \/ Reparse

SpecPng == Init /\ [][NextPng]_vars

-----------------------------------------------------------------------------
(* The commands.  The chunk type of a command was parsed by                 *)
(* ChunkType::from_str when the arguments were read.                        *)

\* the file at filepath after a command: it is the file fs::write left when
\* fs::write opened a file and its path names that file
FileAfter(o) ==
    IF o.written # None /\ o.path = Some(Filepath) THEN o.written ELSE file

\* the types a command can be given: ChunkType::from_str made them when the
\* arguments were read
CommandTypes ==
    { from_str(s).val[1] : s \in { n \in TypeNames : from_str(n).kind = "Ok" } }

\* a write that fails midway fails before the last of the len bytes
WritesBelow(len) == { w \in WriteOutcomes : w.kind = "cut" => w.n < len }

\* the outcomes of fs::write a command can meet, o being its outcome when the
\* write goes through: the system decides one when the command gets to the
\* call
WritesOf(o) ==
    IF o.path = None THEN { WriteOk } ELSE WritesBelow(Len(o.written[1]))

\* pngme encode <filepath> <chunk_type> <message> [output_file]; appended is
\* encode_appended(read_png(file, can_read), chunk_type, message)
EncodeCmd(appended, can_read, chunk_type, output_file, w) ==
    /\ appended.kind = "Ok" => Len(appended.val[1].chunks) <= MaxChunks
    /\ \E o \in { encode_written(appended, output_file, w) } :
           /\ outcome' = Some(o)
           /\ file' = FileAfter(o)
    /\ file0' = file
    /\ cmd' = [name |-> "encode", arg |-> << chunk_type >>, can_read |-> can_read]
    /\ UNCHANGED << codec_vars, png_vars, type_vars, length_vars >>

\* pngme decode <filepath> <chunk_type>; parsed is read_png(file, can_read)
DecodeCmd(parsed, can_read, chunk_type, can_print) ==
    /\ \E o \in { decode_parsed(parsed, ChunkType_to_string(chunk_type),
                                can_print) } :
           /\ outcome' = Some(o)
           /\ file' = FileAfter(o)
    /\ file0' = file
    /\ cmd' = [name |-> "decode", arg |-> << chunk_type >>, can_read |-> can_read]
    /\ UNCHANGED << codec_vars, png_vars, type_vars, length_vars >>

\* pngme remove <filepath> <chunk_type>; parsed is read_png(file, can_read)
RemoveCmd(parsed, can_read, chunk_type, w, can_print) ==
    /\ \E o \in { remove_parsed(parsed, ChunkType_to_string(chunk_type), w,
                                can_print) } :
           /\ outcome' = Some(o)
           /\ file' = FileAfter(o)
    /\ file0' = file
    /\ cmd' = [name |-> "remove", arg |-> << chunk_type >>, can_read |-> can_read]
    /\ UNCHANGED << codec_vars, png_vars, type_vars, length_vars >>

\* pngme print <filepath>; parsed is read_png(file, can_read)
PrintCmd(parsed, can_read, can_print) ==
    /\ \E o \in { print_chunks_parsed(parsed, can_print) } :
           /\ outcome' = Some(o)
           /\ file' = FileAfter(o)
    /\ file0' = file
    /\ cmd' = [name |-> "print", arg |-> << >>, can_read |-> can_read]
    /\ UNCHANGED << codec_vars, png_vars, type_vars, length_vars >>

\* run: each command begins by reading and parsing the file at filepath
NextCmd ==
    \/ \E can_read \in BOOLEAN : \E parsed \in { read_png(file, can_read) } :
       \E chunk_type \in CommandTypes, message \in Messages :
       \E appended \in { encode_appended(parsed, chunk_type, message) } :
       \E output_file \in OutputFiles :
       \E w \in WritesOf(encode_written(appended, output_file, WriteOk)) :
           EncodeCmd(appended, can_read, chunk_type, output_file, w)
    \/ \E can_read \in BOOLEAN : \E parsed \in { read_png(file, can_read) } :
       \E chunk_type \in CommandTypes, can_print \in BOOLEAN :
           DecodeCmd(parsed, can_read, chunk_type, can_print)
    \/ \E can_read \in BOOLEAN : \E parsed \in { read_png(file, can_read) } :
       \E chunk_type \in CommandTypes :
       \E w \in WritesOf(remove_parsed(parsed, ChunkType_to_string(chunk_type),
                                       WriteOk, TRUE)),
          can_print \in BOOLEAN :
           RemoveCmd(parsed, can_read, chunk_type, w, can_print)
    \/ \E can_read \in BOOLEAN : \E parsed \in { read_png(file, can_read) } :
       \E can_print \in BOOLEAN :
           PrintCmd(parsed, can_read, can_print)

SpecCmd == Init /\ [][NextCmd]_vars

-----------------------------------------------------------------------------
(* The type codes: one is made from a string or from 4 raw bytes, and asked  *)
(* whether it is valid.                                                      *)

Strings == SeqsUpTo(Chars, MaxChars)

RawCodes == { << a, b, c, d >> : a \in CodeBytes, b \in CodeBytes,
                                 c \in CodeBytes, d \in CodeBytes }

\* ChunkType::from_str(s)
FromStr(s) ==
    /\ tinput' = [name |-> "str", arg |-> str_as_bytes(s)]
    /\ tresult' = Some(from_str(str_as_bytes(s)))
    /\ tvalid' = None
    /\ UNCHANGED << codec_vars, png_vars, cmd_vars, length_vars >>

\* ChunkType::try_from(code)
FromBytes(code) ==
    /\ tinput' = [name |-> "bytes", arg |-> code]
    /\ tresult' = Some(ChunkType_try_from(code))
    /\ tvalid' = None
    /\ UNCHANGED << codec_vars, png_vars, cmd_vars, length_vars >>

\* chunk_type.is_valid()
IsValid ==
    /\ tresult # None
    /\ tresult[1].kind = "Ok"
    /\ tvalid = None
    /\ tvalid' = Some(is_valid(tresult[1].val[1]))
    /\ UNCHANGED << tinput, tresult, codec_vars, png_vars, cmd_vars, length_vars >>

\* one type code is made in a run
NextType ==
    \/ tinput = NoOp /\ \E s \in Strings : FromStr(s)
    \/ tinput = NoOp /\ \E code \in RawCodes : FromBytes(code)
    \/ IsValid

SpecType == Init /\ [][NextType]_vars

-----------------------------------------------------------------------------
(* Properties of the chunk codec *)

\* the type code in bytes 4..8 of the buffer
BufferType == [bytes |-> SubSeq(bytes, 5, 8)]

\* the length field in bytes 0..4 of the buffer
BufferLength == from_be_bytes(SubSeq(bytes, 1, 4))

\* crc == CRC32(type bytes ++ payload bytes)
CrcOf(c) == c.crc = checksum_ieee(c.chunk_type.bytes \o c.data)

\* the length field is the number of payload bytes
LengthOf(c) ==
    /\ c.length.hi = Len(c.data) \div 65536
    /\ c.length.lo = Len(c.data) % 65536

\* the u32 u is greater than the count n
Exceeds(u, n) ==
    \/ u.hi > n \div 65536
    \/ u.hi = n \div 65536 /\ u.lo > n % 65536

Parsed == step = "parsed"

\* C1: parsing the serialization of any chunk, built by Chunk::new or returned
\* by a successful Chunk::try_from, succeeds and returns an equal chunk.
ChunkRoundTrip ==
    (Parsed /\ edit.kind = "none") => result[1] = Ok(chunk[1])

\* C2: a buffer of at least 12 bytes whose length field exceeds the bytes left
\* after the 8-byte header minus the 4 CRC bytes makes try_from return an
\* error value; it does not panic.
TruncatedIsError ==
    (/\ Parsed
     /\ Len(bytes) >= 12
     /\ Exceeds(BufferLength, Len(bytes) - 12))
    => result[1].kind = "Err"

\* C3: every chunk that exists, from Chunk::new or from a successful
\* try_from, has crc = CRC32(type ++ payload), and the CRC a successful
\* try_from keeps is the one stored in the buffer after the payload.
CrcInvariant ==
    /\ chunk # None => CrcOf(chunk[1])
    /\ (result # None /\ result[1].kind = "Ok") =>
          LET c == result[1].val[1]
          IN  /\ CrcOf(c)
              /\ to_be_bytes(c.crc)
                   = SubSeq(bytes, 9 + Len(c.data), 12 + Len(c.data))

CrcInvariantWitness ==
    /\ step = "built"
    /\ origin = "parsed"
    /\ Len(chunk[1].data) > 0

\* one byte of the type region or of the payload region was changed
ChangedInRegion ==
    /\ Parsed
    /\ edit.kind = "set"
    /\ edit.at \in 5..(8 + Len(chunk[1].data))

\* C4 as stated: changing one byte of the type or payload region of a
\* serialized chunk makes try_from fail with InvalidCrc(expected, actual),
\* expected # actual.
CrcSensitivity ==
    ChangedInRegion =>
        /\ result[1].kind = "Err"
        /\ result[1].err = "InvalidCrc"
        /\ result[1].info[1] # result[1].info[2]

\* C4 amended: changing one byte of the type or payload region of a
\* serialized chunk makes try_from fail: with InvalidCrc(expected, actual),
\* expected the stored CRC and actual # expected, when the type code of the
\* changed buffer is valid, and with InvalidChunkType when it is not.
CrcSensitivityOfValidTypes ==
    ChangedInRegion =>
        IF is_valid(BufferType)
        THEN /\ result[1].kind = "Err"
             /\ result[1].err = "InvalidCrc"
             /\ result[1].info[1] = chunk[1].crc
             /\ result[1].info[1] # result[1].info[2]
        ELSE result[1] = Err("InvalidChunkType", << >>)

CrcSensitivityWitness ==
    /\ ChangedInRegion
    /\ edit.at > 8
    /\ result[1].err = "InvalidCrc"

\* C5: a buffer of at least 12 bytes whose type code is not valid is rejected
\* with InvalidChunkType, whatever its length field and stored CRC.
InvalidTypeBeforeCrc ==
    (Parsed /\ Len(bytes) >= 12 /\ ~is_valid(BufferType))
    => result[1] = Err("InvalidChunkType", << >>)

\* an invalid type code in a buffer whose stored CRC is the right one
InvalidTypeBeforeCrcWitness ==
    /\ Parsed
    /\ edit.kind = "none"
    /\ ~is_valid(BufferType)
    /\ SubSeq(bytes, Len(bytes) - 3, Len(bytes))
         = to_be_bytes(checksum_ieee(SubSeq(bytes, 5, Len(bytes) - 4)))
    /\ result[1].err = "InvalidChunkType"

\* the length field is the payload length len, a usize
LengthIs(length, len) ==
    /\ len.top = 0
    /\ length.hi = len.hi
    /\ length.lo = len.lo

\* C6: every chunk, from Chunk::new for any payload or from a successful
\* try_from, has a length field equal to the number of its payload bytes.
LengthInvariant ==
    /\ chunk # None => LengthOf(chunk[1])
    /\ (result # None /\ result[1].kind = "Ok") => LengthOf(result[1].val[1])
    /\ sized # None => LengthIs(sized[1].length, sized[1].len)

\* C7: a buffer of fewer than 12 bytes fails with InputTooSmall, whatever it
\* holds.
ShortInputTooSmall ==
    (Parsed /\ Len(bytes) < 12) => result[1] = Err("InputTooSmall", << >>)

\* a short buffer that holds a whole header with a type code that is not valid
ShortInputTooSmallWitness ==
    /\ Parsed
    /\ Len(bytes) \in 8..11
    /\ ~is_valid(BufferType)
    /\ result[1].err = "InputTooSmall"

-----------------------------------------------------------------------------
(* Properties of the container and of the commands *)

\* C8: parsing the serialized bytes of any container, also of one a chunk
\* built by Chunk::new from a type string ChunkType::from_str accepts was
\* appended to, succeeds and yields an equal container.
ContainerRoundTrip ==
    op.name = "reparse" => ret[1] = Ok(prev)

\* append_chunk(c) was followed by remove_chunk(type name of c)
AppendedThenRemoved ==
    /\ op2.name = "append"
    /\ op.name = "remove"
    /\ op.arg[1] = op2.arg[1].chunk_type

\* the positions of the chunks of p that have the type t
OfType(p, t) == { i \in 1..Len(p.chunks) : p.chunks[i].chunk_type = t }

\* the chunks of p without the one at position i
Without(p, i) ==
    SubSeq(p.chunks, 1, i - 1) \o SubSeq(p.chunks, i + 1, Len(p.chunks))

\* C9 as stated: append_chunk(c) followed by remove_chunk(type name of c)
\* returns c and leaves the chunk sequence as it was before the append.
AppendRemoveRestores ==
    AppendedThenRemoved => (ret[1] = Ok(op2.arg[1]) /\ png = prev2)

\* C9 amended: append_chunk(c) followed by remove_chunk(type name of c)
\* removes and returns the first chunk in sequence order that has c's type.
\* When the container held no chunk of that type before the append, that is c
\* and the sequence is as it was before the append; otherwise it is the
\* earliest such chunk, and the sequence is the earlier one without it and
\* with c at its end.
AppendRemoveFirstMatch ==
    AppendedThenRemoved =>
        LET c == op2.arg[1]
            same == OfType(prev2, c.chunk_type)
        IN  IF same = {}
            THEN ret[1] = Ok(c) /\ png = prev2
            ELSE /\ ret[1] = Ok(prev2.chunks[Min(same)])
                 /\ png.chunks = Append(Without(prev2, Min(same)), c)

\* c was appended to a container that held chunks of other types only, and
\* removed again
AppendRemoveWitness ==
    /\ AppendedThenRemoved
    /\ prev2.chunks # << >>
    /\ OfType(prev2, op2.arg[1].chunk_type) = {}
    /\ ret[1] = Ok(op2.arg[1])
    /\ png = prev2

\* the remove command read a file that parses to a container without a chunk
\* of the command's type
RemovedAbsentType ==
    /\ cmd.name = "remove"
    /\ fs_read(file0, cmd.can_read).kind = "Ok"
    /\ Png_try_from(file0[1]).kind = "Ok"
    /\ OfType(Png_try_from(file0[1]).val[1], cmd.arg[1]) = {}

\* C10: removing a type no chunk of the container has returns ChunkNotFound
\* and leaves the chunk sequence as it was, and the remove command returns
\* that error without calling fs::write, so that the file is as it was.
FailedRemovalChangesNothing ==
    RemovedAbsentType =>
        /\ outcome[1].out = Err("ChunkNotFound", << >>)
        /\ outcome[1].held = Some(Png_try_from(file0[1]).val[1])
        /\ outcome[1].path = None
        /\ outcome[1].written = None
        /\ file = file0

\* the type was removed from a file that holds chunks, none of that type
FailedRemovalWitness ==
    /\ RemovedAbsentType
    /\ Png_try_from(file0[1]).val[1].chunks # << >>
    /\ outcome[1].out.err = "ChunkNotFound"

-----------------------------------------------------------------------------
(* Properties of the type codes *)

\* the ASCII letters
Letters == (65..90) \cup (97..122)

\* bit 5 (value 32) of the byte is clear
Bit5Clear(b) == (b \div 32) % 2 = 0

\* C11: from_str on a string fails with the length error when its byte length
\* is not 4, fails with InvalidCharacter when the length is 4 and some byte is
\* not a letter, and otherwise gives the type code whose bytes are the
\* string's, also when the reserved bit of byte 2 is set.
FromStrOutcome ==
    tinput.name = "str" =>
        LET s == tinput.arg
        IN  tresult[1] =
                IF Len(s) # 4 THEN Err("ByteLengthError", << Len(s) >>)
                ELSE IF \E i \in 1..4 : s[i] \notin Letters
                THEN Err("InvalidCharacter", << >>)
                ELSE Ok([bytes |-> s])

\* a string of four letters with the reserved bit set was accepted
FromStrOutcomeWitness ==
    /\ tinput.name = "str"
    /\ Len(tinput.arg) = 4
    /\ \A i \in 1..4 : tinput.arg[i] \in Letters
    /\ ~Bit5Clear(tinput.arg[3])
    /\ tresult[1].kind = "Ok"

\* C12: is_valid() is true exactly when all four bytes are ASCII letters and
\* bit 5 of byte 2 is clear.
IsValidExactly ==
    tvalid # None =>
        LET b == tresult[1].val[1].bytes
        IN  tvalid[1] <=> ((\A i \in 1..4 : b[i] \in Letters) /\ Bit5Clear(b[3]))

\* is_valid said false of a code that holds a byte that is no letter and whose
\* byte 2 has bit 5 clear
IsValidExactlyWitness ==
    /\ tvalid = Some(FALSE)
    /\ tinput.name = "bytes"
    /\ \E i \in 1..4 : tinput.arg[i] \notin Letters
    /\ Bit5Clear(tinput.arg[3])

====
